---- MODULE Spec2Model ----
(***************************************************************************)
(* A model of one run of the Pure1 inventory plugin                        *)
(* (plugins/inventory/pure1_inventory.py): InventoryModule.parse calls     *)
(* generate_fleet_inventory, which issues three queries against the Pure1  *)
(* service (get_arrays, get_tags, get_nets), creates the two               *)
(* classification groups and then walks the array list, adding one host    *)
(* per array with its variables and its keyed groups.                      *)
(*                                                                         *)
(* Strings are sequences of tokens, so that concatenation is \o and the    *)
(* empty string is << >>.  The strings the code searches for a substring   *)
(* (array.os, net.name) are sequences of single characters.  A Python      *)
(* value that may be None is a record with the field isNone.               *)
(***************************************************************************)
EXTENDS Integers, Sequences, FiniteSets, TLC

\* ------------------------------------------------------------------ bounds
MaxArrays == 2
MaxTags == 2
MaxNets == 2
MaxKeyed == 2

\* ------------------------------------------------------- Python values
None == [isNone |-> TRUE]
Some(v) == [isNone |-> FALSE, v |-> v]

\* A Python dict is a function; the empty dict is the empty function.
EmptyDict == << >>

\* The truth value of a str or a dict that may be None (lines 112, 115, 122).
Truthy(x) == IF x.isNone THEN FALSE ELSE x.v # << >>

\* Python's `sub in s` on strings: sub occurs as a contiguous slice of s.
Contains(sub, s) ==
    \E k \in 0..(Len(s) - Len(sub)) : SubSeq(s, k + 1, k + Len(sub)) = sub

\* All sequences over S of length at most n.
SeqsUpTo(S, n) == UNION {[1..k -> S] : k \in 0..n}

\* ------------------------------------------------------ program constants
HTTP_OK == 200
FA_MARK == <<"F", "A">>
FB_MARK == <<"F", "B">>
VIR_MARK == <<"v", "i", "r">>
PURE_FLASHARRAY == <<"pure_flasharray">>
PURE_FLASHBLADE == <<"pure_flashblade">>
NETS_QUERY_FILTER == <<"contains(name, 'vir')">>
ERROR_PREFIX == <<" Error getting results. Check internet access.">>

\* ------------------------------------------------------------ input sets
ArrA == <<"arrA">>
ArrB == <<"arrB">>
ArrC == <<"arrC">>
Names == {ArrA, ArrB}

OsFA == <<"P", "/", "F", "A">>
OsFB == <<"P", "/", "F", "B">>
OsBoth == <<"F", "B", "F", "A">>
OsNone == <<"F", "x", "A", "B">>

Version == <<"6.1">>
ArrayRec(n, os, model) == [name |-> n, os |-> os, model |-> model, version |-> Version]

\* os and model as the service reports them together.
OsModels3 == {<<OsFA, <<"FA-405">>>>, <<OsFB, <<"FB-S200">>>>, <<OsNone, <<"CBS-V10">>>>}
OsModels4 == OsModels3 \cup {<<OsBoth, <<"FA-X70">>>>}
ArrayRecords(names, osModels) == {ArrayRec(n, om[1], om[2]) : n \in names, om \in osModels}

TagRec(n, k, v) == [resource |-> [name |-> n], key |-> k, value |-> v]
TagEntries ==
    { TagRec(ArrA, <<"Department">>, <<"Finance">>),
      TagRec(ArrA, <<"Department">>, <<"Eng">>),
      TagRec(ArrA, <<"Site">>, <<"Finance">>),
      TagRec(ArrB, <<"Department">>, <<"Eng">>) }

Vir0 == <<"v", "i", "r", "0">>
Vir1 == <<"v", "i", "r", "1">>
Eth0 == <<"e", "t", "h", "0">>
Ip1 == <<"10.0.0.5">>
Ip2 == <<"10.0.0.6">>
NetRec(n, addr, owners) == [name |-> n, address |-> addr, arrays |-> [j \in DOMAIN owners |-> [name |-> owners[j]]]]
NetEntries ==
    { NetRec(Vir0, Ip1, <<ArrA>>),
      NetRec(Vir1, Ip2, <<ArrA, ArrB>>),
      NetRec(Eth0, Ip2, <<ArrA>>),
      NetRec(Vir0, << >>, <<ArrA>>),
      NetRec(Vir0, Ip2, <<ArrB>>) }

KeyedSpec(p, k) == [prefix |-> p, key |-> k]
KeyedSpecs ==
    { KeyedSpec(<<"pure_mod">>, "pure_model"),
      KeyedSpec(<<"tag">>, "tags"),
      KeyedSpec(<<"url">>, "fa_url") }
ExampleKeyedGroups == <<KeyedSpec(<<"pure_mod">>, "pure_model"), KeyedSpec(<<"tag">>, "tags")>>

ArrayFilters == {None, Some(<< >>), Some(<<"contains(name, 'sn1-405')">>)}
TagFilters ==
    { None,
      Some(EmptyDict),
      Some("tag_name" :> <<"Department">>),
      Some("value" :> <<"Finance">>),
      Some(("tag_name" :> <<"Department">>) @@ ("value" :> <<"Finance">>)) }

Response(status, items, context) ==
    [status_code |-> status, items |-> items,
     errors |-> <<[message |-> <<"upstream failure">>, context |-> context]>>]
OkResponse(items) == Response(HTTP_OK, items, None)
Statuses == {HTTP_OK, 500}
Contexts == {None, Some(<<"request-id 7">>)}

\* The arrays, tags and interfaces of the spec's end-to-end scenario.
SampleArrays == <<ArrayRec(ArrA, OsFA, <<"FA-405">>)>>
SampleTags == <<TagRec(ArrA, <<"Department">>, <<"Finance">>)>>
SampleNets == <<NetRec(Vir0, Ip1, <<ArrA>>)>>

Options(af, tf, kg, strict) ==
    [array_filter |-> af, tag_filter |-> tf, keyed_groups |-> kg, strict |-> strict]
Service(ra, rt, rn) == [arrays |-> ra, tags |-> rt, nets |-> rn]

\* ------------------------------------------------------------------ state
VARIABLES
    pc,            \* where generate_fleet_inventory stands
    opts,          \* the plugin's options (get_option)
    service,       \* what the Pure1 service answers to each of the three queries
    queries,       \* the queries issued so far, in order
    arrays,        \* generate_fleet_inventory's arrays
    tags,          \* generate_fleet_inventory's tags (tags_byarray)
    nets,          \* generate_fleet_inventory's nets (nets_byarray)
    inventory,     \* self.inventory: groups, hosts, children, vars
    i,             \* the index in arrays of the array the loop handles next
    group,         \* the loop's local variable group (None: not bound yet)
    err,           \* the exception that ended the run ("" while none)
    msg,           \* the message of the AnsibleError raised
    keyed_calls    \* the calls of _add_host_to_keyed_groups made so far

vars == <<pc, opts, service, queries, arrays, tags, nets, inventory, i, group, err, msg, keyed_calls>>

EmptyInventory == [groups |-> {}, hosts |-> {}, children |-> {}, vars |-> EmptyDict]

\* --------------------------------------------------------------- dicts
DictSet(d, k, v) == [x \in (DOMAIN d) \cup {k} |-> IF x = k THEN v ELSE d[x]]
DictGet(d, k, default) == IF k \in DOMAIN d THEN d[k] ELSE default
\* Every key of upd set on d, as a loop of d[k] = upd[k] does.
DictUpdate(d, upd) ==
    [x \in (DOMAIN d) \cup (DOMAIN upd) |-> IF x \in DOMAIN upd THEN upd[x] ELSE d[x]]

\* A host variable's value with the shape _add_host_to_keyed_groups tells apart.
Scalar(s) == [shape |-> "scalar", val |-> s]
Mapping(m) == [shape |-> "mapping", val |-> m]

\* ------------------------------------------------------------ get_arrays
\* Lines 107-113: the filter string before the tag filter is looked at.
InitialFilterString(array_filter) ==
    IF Truthy(array_filter) /\ ~(array_filter.v = << >>) THEN array_filter ELSE None

\* Line 115: the tag filter is used when it is a dict holding both keys.
TagFilterApplies(tag_filter) ==
    /\ Truthy(tag_filter)
    /\ "tag_name" \in DOMAIN tag_filter.v
    /\ "value" \in DOMAIN tag_filter.v

\* Line 120: "tags('{}','{}')".format(tag_name, value).
TagsExpr(tag_filter) ==
    <<"tags('">> \o tag_filter.v["tag_name"] \o <<"','">> \o tag_filter.v["value"] \o <<"')">>

\* FilterHead with the conjunction left out.
FilterHead_NoAnd(array_filter_string) ==
    IF Truthy(array_filter_string) THEN array_filter_string.v ELSE << >>

\* Lines 116-119: what the tags expression is appended to.
FilterHead(array_filter_string) ==
    IF Truthy(array_filter_string) THEN array_filter_string.v \o <<" and ">> ELSE << >>

\* Lines 107-120: array_filter_string when the query is issued.
ArrayFilterString(array_filter, tag_filter) ==
    LET s0 == InitialFilterString(array_filter)
    IN  IF TagFilterApplies(tag_filter)
        THEN Some(FilterHead(s0) \o TagsExpr(tag_filter))
        ELSE s0

\* Lines 122-125: the query get_arrays issues.
ArraysQuery(array_filter_string) ==
    IF Truthy(array_filter_string)
    THEN [op |-> "get_arrays", filter |-> array_filter_string]
    ELSE [op |-> "get_arrays", filter |-> None]

\* ResponseFailed taking every status code from 200 up as a success.
ResponseFailed_Below200(response) == response.status_code < HTTP_OK

\* Lines 129, 143, 165: the check of a response's status code.
ResponseFailed(response) == response.status_code # HTTP_OK

\* Lines 99-102: the message display_response_error raises.
ErrorMessage(response) ==
    LET e == response.errors[1]
    IN  ERROR_PREFIX \o e.message \o (IF ~e.context.isNone THEN e.context.v ELSE << >>)

\* ------------------------------------------------------------- get_tags
\* Lines 152-156: tags_byarray after the first n items.
RECURSIVE TagsByArray(_, _)
TagsByArray(items, n) ==
    IF n = 0 THEN EmptyDict
    ELSE LET prev == TagsByArray(items, n - 1)
             tag == items[n]
             inner == DictGet(prev, tag.resource.name, EmptyDict)
         IN  DictSet(prev, tag.resource.name, DictSet(inner, tag.key, tag.value))

\* ------------------------------------------------------------- get_nets
\* Line 176: the interfaces whose address is kept.
NetEligible(net) == Contains(VIR_MARK, net.name) /\ net.address # << >>

\* Lines 174-180: nets_byarray after the first n items.
RECURSIVE NetsByArray(_, _)
NetsByArray(items, n) ==
    IF n = 0 THEN EmptyDict
    ELSE LET prev == NetsByArray(items, n - 1)
             net == items[n]
         IN  IF NetEligible(net)
             THEN DictSet(prev, net.arrays[1].name, "ip" :> net.address)
             ELSE prev

\* ------------------------------------------------------------ inventory
\* self.inventory.add_group(name).
AddGroup(inv, g) == [inv EXCEPT !.groups = @ \cup {g}]

\* self.inventory.add_host(host, group=group).
AddHost(inv, h, g) ==
    [inv EXCEPT !.hosts = @ \cup {h},
                !.children = @ \cup {<<g, h>>},
                !.vars = IF h \in DOMAIN @ THEN @ ELSE DictSet(@, h, EmptyDict)]

\* Lines 220-221: self.inventory.set_variable(host, k, array_vars[k]) for every k.
SetVariables(inv, h, array_vars) ==
    [inv EXCEPT !.vars = DictSet(@, h, DictUpdate(@[h], array_vars))]

Members(inv, g) == {h \in inv.hosts : <<g, h>> \in inv.children}
GroupsOf(inv, h) == {g \in inv.groups : <<g, h>> \in inv.children}

\* ------------------------------------------- generate_fleet_inventory loop
\* GroupAfterBranches with the two tests in the other order.
GroupAfterBranches_FBFirst(before, os) ==
    IF Contains(FB_MARK, os) THEN Some(PURE_FLASHBLADE)
    ELSE IF Contains(FA_MARK, os) THEN Some(PURE_FLASHARRAY)
    ELSE before

\* Lines 199-212: the value of the local variable group after the branches,
\* given its value before them.  Neither branch taken leaves it as it was.
GroupAfterBranches(before, os) ==
    IF Contains(FA_MARK, os) THEN Some(PURE_FLASHARRAY)
    ELSE IF Contains(FB_MARK, os) THEN Some(PURE_FLASHBLADE)
    ELSE before

\* Lines 203-204 and 211-212: the address variable, when nets holds the array.
UrlVar(var, name, netsIdx) ==
    IF name \in DOMAIN netsIdx /\ "ip" \in DOMAIN netsIdx[name]
    THEN var :> Scalar(netsIdx[name]["ip"])
    ELSE EmptyDict

\* Lines 199-212: the variables the branch taken sets.
FamilyVars(array, tagsIdx, netsIdx) ==
    IF Contains(FA_MARK, array.os)
    THEN DictUpdate("tags" :> Mapping(DictGet(tagsIdx, array.name, EmptyDict)),
                    UrlVar("fa_url", array.name, netsIdx))
    ELSE IF Contains(FB_MARK, array.os)
    THEN DictUpdate("tags" :> Mapping(DictGet(tagsIdx, array.name, EmptyDict)),
                    UrlVar("fb_url", array.name, netsIdx))
    ELSE EmptyDict

\* Lines 197-216: array_vars when add_host is reached.
ArrayVars(array, tagsIdx, netsIdx) ==
    DictUpdate(FamilyVars(array, tagsIdx, netsIdx),
               ("pure_model" :> Scalar(array.model)) @@ ("pure_version" :> Scalar(array.version)))

\* StrictArg with the option not handed on, leaving the parameter's default.
StrictArg_Default(options) == FALSE

\* Line 194 and line 224: the strict flag handed to _add_host_to_keyed_groups.
StrictArg(options) == options.strict

\* Line 224: the variables handed to _add_host_to_keyed_groups.
KeyedVariablesArg(array_vars) == array_vars

\* Constructable._add_host_to_keyed_groups belongs to the Ansible library the
\* plugin imports (line 5); the three definitions below follow the
\* specification's description of it (4.4, step 2d).
\* The names one spec derives from the value of its key: one per key of a
\* mapping, one for a scalar, one per element of a sequence.
DerivedGroups(prefix, value) ==
    CASE value.shape = "mapping" -> {prefix \o <<"_">> \o k : k \in DOMAIN value.val}
      [] value.shape = "scalar" -> {prefix \o <<"_">> \o value.val}
      [] value.shape = "sequence" -> {prefix \o <<"_">> \o value.val[j] : j \in DOMAIN value.val}

\* The host added to every group of gs, each group created first.
RECURSIVE AddHostToGroups(_, _, _)
AddHostToGroups(inv, h, gs) ==
    IF gs = {} THEN inv
    ELSE LET g == CHOOSE x \in gs : TRUE
         IN  AddHostToGroups(AddHost(AddGroup(inv, g), h, g), h, gs \ {g})

\* Constructable._add_host_to_keyed_groups after the first n specs of keys:
\* the inventory, and whether a missing key has raised under strict.
RECURSIVE AddHostToKeyedGroups(_, _, _, _, _, _)
AddHostToKeyedGroups(inv, keys, n, variables, host, strict) ==
    IF n = 0 THEN [inventory |-> inv, failed |-> FALSE]
    ELSE LET prev == AddHostToKeyedGroups(inv, keys, n - 1, variables, host, strict)
             keyed == keys[n]
         IN  IF prev.failed THEN prev
             ELSE IF keyed.key \notin DOMAIN variables
             THEN [inventory |-> prev.inventory, failed |-> strict]
             ELSE [inventory |-> AddHostToGroups(prev.inventory, host,
                                                 DerivedGroups(keyed.prefix, variables[keyed.key])),
                   failed |-> FALSE]

\* Lines 197-224: one pass of the loop body over array, from the inventory
\* inv and the local group grp: the inventory, group and exception after it,
\* and the call of _add_host_to_keyed_groups it made (none when add_host
\* raised).
LoopBody(inv, grp, array, tagsIdx, netsIdx, options) ==
    LET g == GroupAfterBranches(grp, array.os)
        array_vars == ArrayVars(array, tagsIdx, netsIdx)
    IN  IF g.isNone
        THEN [inventory |-> inv, group |-> g, err |-> "UnboundLocalError", calls |-> << >>]
        ELSE LET added == SetVariables(AddHost(inv, array.name, g.v), array.name, array_vars)
                 keyed == AddHostToKeyedGroups(added, options.keyed_groups,
                                               Len(options.keyed_groups),
                                               KeyedVariablesArg(array_vars), array.name,
                                               StrictArg(options))
             IN  [inventory |-> keyed.inventory, group |-> g,
                  err |-> IF keyed.failed THEN "KeyedGroupError" ELSE "",
                  calls |-> <<[host |-> array.name,
                               variables |-> KeyedVariablesArg(array_vars),
                               strict |-> StrictArg(options),
                               failed |-> keyed.failed]>>]

\* Lines 190-191: the inventory when the loop starts.
WithMainGroups(inv) == AddGroup(AddGroup(inv, PURE_FLASHARRAY), PURE_FLASHBLADE)

\* Lines 190-224 on a list of arrays: the loop run over its first n arrays.
RECURSIVE RunLoop(_, _, _, _, _)
RunLoop(arrs, n, tagsIdx, netsIdx, options) ==
    IF n = 0
    THEN [inventory |-> WithMainGroups(EmptyInventory), group |-> None, err |-> ""]
    ELSE LET prev == RunLoop(arrs, n - 1, tagsIdx, netsIdx, options)
         IN  IF prev.err # "" THEN prev
             ELSE LET r == LoopBody(prev.inventory, prev.group, arrs[n], tagsIdx, netsIdx, options)
                  IN  [inventory |-> r.inventory, group |-> r.group, err |-> r.err]

\* ------------------------------------------------------------------ Init
NoFilters(kg, strict) == Options(None, None, kg, strict)

DistinctNames(arrs) ==
    \A j, k \in DOMAIN arrs : j # k => arrs[j].name # arrs[k].name

KeyedTags ==
    <<TagRec(ArrA, <<"Department">>, <<"Finance">>),
      TagRec(ArrA, <<"Site">>, <<"Finance">>),
      TagRec(ArrB, <<"Department">>, <<"Eng">>)>>

\* The filters and the three status codes vary; the data is the scenario's.
InitFetch ==
    /\ opts \in {Options(af, tf, ExampleKeyedGroups, FALSE) : af \in ArrayFilters, tf \in TagFilters}
    /\ service \in {Service(Response(sa, SampleArrays, c), Response(st, SampleTags, c),
                            Response(sn, SampleNets, c)) :
                        sa \in Statuses, st \in Statuses, sn \in Statuses, c \in Contexts}

\* The array list and the tag list vary.
InitTags ==
    /\ opts = NoFilters(<< >>, FALSE)
    /\ service \in {Service(OkResponse(a), OkResponse(t), OkResponse(SampleNets)) :
                        a \in SeqsUpTo(ArrayRecords(Names, OsModels3), MaxArrays),
                        t \in SeqsUpTo(TagEntries, MaxTags)}

\* The array list and the interface list vary.
InitNets ==
    /\ opts = NoFilters(<< >>, FALSE)
    /\ service \in {Service(OkResponse(a), OkResponse(SampleTags), OkResponse(n)) :
                        a \in SeqsUpTo(ArrayRecords(Names, OsModels3), MaxArrays),
                        n \in SeqsUpTo(NetEntries, MaxNets)}

\* The array list, the keyed groups and strict vary.
InitKeyed ==
    /\ opts \in {NoFilters(kg, strict) : kg \in SeqsUpTo(KeyedSpecs, MaxKeyed), strict \in BOOLEAN}
    /\ service \in {Service(OkResponse(a), OkResponse(KeyedTags), OkResponse(SampleNets)) :
                        a \in SeqsUpTo(ArrayRecords(Names, OsModels3), MaxArrays)}

\* Every list of arrays with pairwise distinct names among three names.
InitOrder ==
    /\ opts \in {NoFilters(<< >>, FALSE), NoFilters(ExampleKeyedGroups, FALSE)}
    /\ service \in {Service(OkResponse(a), OkResponse(KeyedTags), OkResponse(SampleNets)) :
                        a \in {x \in SeqsUpTo(ArrayRecords({ArrA, ArrB, ArrC}, OsModels4), 3) :
                                   DistinctNames(x)}}

Init ==
    /\ InitFetch \/ InitTags \/ InitNets \/ InitKeyed \/ InitOrder
    /\ pc = "get_arrays"
    /\ queries = << >>
    /\ arrays = << >>
    /\ tags = EmptyDict
    /\ nets = EmptyDict
    /\ inventory = EmptyInventory
    /\ i = 1
    /\ group = None
    /\ err = ""
    /\ msg = << >>
    /\ keyed_calls = << >>

\* --------------------------------------------------------------- actions
\* display_response_error (lines 97-103): the run ends with an AnsibleError.
Raise(response) ==
    /\ pc' = "error"
    /\ err' = "AnsibleError"
    /\ msg' = ErrorMessage(response)

\* get_arrays (lines 105-136), called at line 185.
GetArrays ==
    /\ pc = "get_arrays"
    /\ queries' = Append(queries, ArraysQuery(ArrayFilterString(opts.array_filter, opts.tag_filter)))
    /\ IF ResponseFailed(service.arrays)
       THEN Raise(service.arrays) /\ UNCHANGED arrays
       ELSE /\ arrays' = service.arrays.items
            /\ pc' = "get_tags"
            /\ UNCHANGED <<err, msg>>
    /\ UNCHANGED <<opts, service, tags, nets, inventory, i, group, keyed_calls>>

\* get_tags (lines 138-157), called at line 186.
GetTags ==
    /\ pc = "get_tags"
    /\ queries' = Append(queries, [op |-> "get_arrays_tags", filter |-> None])
    /\ IF ResponseFailed(service.tags)
       THEN Raise(service.tags) /\ UNCHANGED tags
       ELSE /\ tags' = TagsByArray(service.tags.items, Len(service.tags.items))
            /\ pc' = "get_nets"
            /\ UNCHANGED <<err, msg>>
    /\ UNCHANGED <<opts, service, arrays, nets, inventory, i, group, keyed_calls>>

\* get_nets (lines 159-181), called at line 187.
GetNets ==
    /\ pc = "get_nets"
    /\ queries' = Append(queries, [op |-> "get_network_interfaces", filter |-> Some(NETS_QUERY_FILTER)])
    /\ IF ResponseFailed(service.nets)
       THEN Raise(service.nets) /\ UNCHANGED nets
       ELSE /\ nets' = NetsByArray(service.nets.items, Len(service.nets.items))
            /\ pc' = "add_groups"
            /\ UNCHANGED <<err, msg>>
    /\ UNCHANGED <<opts, service, arrays, tags, inventory, i, group, keyed_calls>>

\* Lines 190-194: the two main groups are created.
AddMainGroups ==
    /\ pc = "add_groups"
    /\ inventory' = WithMainGroups(inventory)
    /\ pc' = "loop"
    /\ UNCHANGED <<opts, service, queries, arrays, tags, nets, i, group, err, msg, keyed_calls>>

\* Lines 196-224: one pass of the loop, over arrays[i].
ProcessArray ==
    /\ pc = "loop"
    /\ i <= Len(arrays)
    /\ LET r == LoopBody(inventory, group, arrays[i], tags, nets, opts)
       IN  /\ inventory' = r.inventory
           /\ group' = r.group
           /\ keyed_calls' = keyed_calls \o r.calls
           /\ err' = r.err
           /\ IF r.err = ""
              THEN pc' = "loop" /\ i' = i + 1
              ELSE pc' = "error" /\ i' = i
    /\ UNCHANGED <<opts, service, queries, arrays, tags, nets, msg>>

\* Line 196: the list is exhausted and generate_fleet_inventory returns.
Finish ==
    /\ pc = "loop"
    /\ i > Len(arrays)
    /\ pc' = "done"
    /\ UNCHANGED <<opts, service, queries, arrays, tags, nets, inventory, i, group, err, msg, keyed_calls>>

Next == GetArrays \/ GetTags \/ GetNets \/ AddMainGroups \/ ProcessArray \/ Finish

Spec == Init /\ [][Next]_vars

\* ---------------------------------------------------------------- claims
\* The arrays whose pass of the loop has reached add_host.
Registered(j) == j < i \/ (j = i /\ err = "KeyedGroupError")

\* The arrays the loop has visited: the registered ones and the one it raised on.
Visited(j) == j < i \/ (j = i /\ pc = "error" /\ err \in {"KeyedGroupError", "UnboundLocalError"})

HasFA(os) == \E k \in 1..(Len(os) - 1) : os[k] = "F" /\ os[k + 1] = "A"
HasFB(os) == \E k \in 1..(Len(os) - 1) : os[k] = "F" /\ os[k + 1] = "B"

MainGroups == {<<"pure_flasharray">>, <<"pure_flashblade">>}

\* C1: an array whose os holds neither "FA" nor "FB" is skipped: it is no
\* host of the inventory, it is a member of no group, and it raises no
\* error, wherever it stands in the list.
C1_UnclassifiedSkipped ==
    \A j \in DOMAIN arrays :
        (Visited(j) /\ ~HasFA(arrays[j].os) /\ ~HasFB(arrays[j].os) /\ DistinctNames(arrays))
            => /\ arrays[j].name \notin inventory.hosts
               /\ \A g \in inventory.groups : <<g, arrays[j].name>> \notin inventory.children
               /\ err # "UnboundLocalError"

\* C2: every array whose os holds "FA" is registered in pure_flasharray,
\* every other array whose os holds "FB" in pure_flashblade, and with
\* distinct array names such a host is in exactly one of the two groups.
C2_ClassifiedHostsRegistered ==
    \A j \in DOMAIN arrays :
        Registered(j) =>
            LET a == arrays[j]
                mine == {g \in MainGroups : <<g, a.name>> \in inventory.children}
            IN  /\ HasFA(a.os) => <<"pure_flasharray">> \in mine
                /\ (~HasFA(a.os) /\ HasFB(a.os)) => <<"pure_flashblade">> \in mine
                /\ (HasFA(a.os) \/ HasFB(a.os)) =>
                       /\ a.name \in inventory.hosts
                       /\ MainGroups \subseteq inventory.groups
                       /\ DistinctNames(arrays) => Cardinality(mine) = 1

C2_Witness ==
    /\ pc = "done"
    /\ DistinctNames(arrays)
    /\ \E j, k \in DOMAIN arrays :
           /\ HasFA(arrays[j].os) /\ arrays[j].name \in Members(inventory, PURE_FLASHARRAY)
           /\ ~HasFA(arrays[k].os) /\ HasFB(arrays[k].os)
           /\ arrays[k].name \in Members(inventory, PURE_FLASHBLADE)

\* The response to the k-th query of a run.
ResponseTo(k) == CASE k = 1 -> service.arrays [] k = 2 -> service.tags [] k = 3 -> service.nets

\* C3: a query answered with a status code other than 200 aborts the run
\* with an error at that query: the inventory then holds no group and no
\* host, and no later query is issued.
C3_FetchFailureAborts ==
    /\ Len(queries) <= 3
    /\ \A k \in DOMAIN queries :
           ResponseTo(k).status_code # 200 =>
               /\ pc = "error" /\ err = "AnsibleError"
               /\ k = Len(queries)
               /\ inventory.groups = {} /\ inventory.hosts = {}
    /\ (pc = "error" /\ err = "AnsibleError") => ResponseTo(Len(queries)).status_code # 200

C3_Witness ==
    /\ pc = "error" /\ err = "AnsibleError"
    /\ Len(queries) = 2
    /\ service.nets.status_code # 200

HostVars(h) == inventory.vars[h]
HasUrl(h) == "fa_url" \in DOMAIN HostVars(h) \/ "fb_url" \in DOMAIN HostVars(h)

\* C4: every host of the final inventory has pure_model, pure_version and
\* tags (a mapping), has fa_url only as a host of pure_flasharray and fb_url
\* only as a host of pure_flashblade, each only when the network index holds
\* its name, and never has the address variable of the other family.
C4_HostVariables ==
    (pc = "done" /\ DistinctNames(arrays)) =>
        \A h \in inventory.hosts :
            /\ {"pure_model", "pure_version", "tags"} \subseteq DOMAIN HostVars(h)
            /\ HostVars(h)["tags"].shape = "mapping"
            /\ "fa_url" \in DOMAIN HostVars(h) =>
                   h \in Members(inventory, <<"pure_flasharray">>) /\ h \in DOMAIN nets
            /\ "fb_url" \in DOMAIN HostVars(h) =>
                   h \in Members(inventory, <<"pure_flashblade">>) /\ h \in DOMAIN nets
            /\ h \in Members(inventory, <<"pure_flasharray">>) => "fb_url" \notin DOMAIN HostVars(h)
            /\ h \in Members(inventory, <<"pure_flashblade">>) => "fa_url" \notin DOMAIN HostVars(h)

\* The list arrs with its elements in the order the permutation p gives.
Permuted(arrs, p) == [j \in DOMAIN arrs |-> arrs[p[j]]]

\* C5: the final inventory does not depend on the order of the array list:
\* any reordering of a list of arrays with pairwise distinct names on which
\* the run also completes yields the same groups, members and host variables.
C5_OrderIndependent ==
    (pc = "done" /\ DistinctNames(arrays)) =>
        \A p \in Permutations(DOMAIN arrays) :
            LET r == RunLoop(Permuted(arrays, p), Len(arrays), tags, nets, opts)
            IN  r.err = "" => r.inventory = inventory

\* The interfaces whose address the claim says a host named h acquires.
EligibleFor(h) ==
    {k \in DOMAIN service.nets.items :
        LET net == service.nets.items[k]
        IN  /\ net.arrays[1].name = h
            /\ \E m \in 1..(Len(net.name) - 2) :
                   net.name[m] = "v" /\ net.name[m + 1] = "i" /\ net.name[m + 2] = "r"
            /\ Len(net.address) > 0}

Last(S) == CHOOSE k \in S : \A m \in S : m <= k

UrlOf(h) == IF "fa_url" \in DOMAIN HostVars(h) THEN HostVars(h)["fa_url"].val ELSE HostVars(h)["fb_url"].val

\* C6: a host has fa_url or fb_url if and only if the interface list holds
\* an entry of its name whose name contains "vir" and whose address is not
\* empty, and the value is the address of the last such entry.
C6_NetworkJoin ==
    (pc = "done" /\ DistinctNames(arrays)) =>
        \A h \in inventory.hosts :
            /\ HasUrl(h) <=> EligibleFor(h) # {}
            /\ HasUrl(h) => UrlOf(h) = service.nets.items[Last(EligibleFor(h))].address

\* The tag entries of the array named h, and the mapping the claim says they give.
TagEntriesOf(h) == {k \in DOMAIN service.tags.items : service.tags.items[k].resource.name = h}
ExpectedTags(h) ==
    [key \in {service.tags.items[k].key : k \in TagEntriesOf(h)} |->
        service.tags.items[Last({k \in TagEntriesOf(h) : service.tags.items[k].key = key})].value]

\* C7: the tags variable of every host is the mapping of key to value of
\* the tag entries of its name, a later entry winning on a duplicate key,
\* and the empty mapping when it has no entry.
C7_TagJoin ==
    (pc = "done" /\ DistinctNames(arrays)) =>
        \A h \in inventory.hosts :
            /\ "tags" \in DOMAIN HostVars(h)
            /\ HostVars(h)["tags"].val = ExpectedTags(h)

\* The filter the claim gives for the options.
ArrayFilterSet == ~opts.array_filter.isNone /\ Len(opts.array_filter.v) > 0
TagFilterSet == ~opts.tag_filter.isNone /\ {"tag_name", "value"} \subseteq DOMAIN opts.tag_filter.v
ExpectedTagsExpr == <<"tags('", opts.tag_filter.v["tag_name"][1], "','", opts.tag_filter.v["value"][1], "')">>
ExpectedFilter ==
    CASE ArrayFilterSet /\ TagFilterSet -> Some(opts.array_filter.v \o <<" and ">> \o ExpectedTagsExpr)
      [] ArrayFilterSet /\ ~TagFilterSet -> Some(opts.array_filter.v)
      [] ~ArrayFilterSet /\ TagFilterSet -> Some(ExpectedTagsExpr)
      [] OTHER -> None

\* C8: a run issues exactly one array query, first, and its filter is
\* "<array_filter> and tags('<tag_name>','<value>')" when both are
\* configured, the one configured when only one is, and none otherwise.
C8_ArrayQueryFilter ==
    Len(queries) >= 1 =>
        /\ queries[1].op = "get_arrays"
        /\ \A k \in DOMAIN queries : queries[k].op = "get_arrays" => k = 1
        /\ queries[1].filter = ExpectedFilter

C8_Witness ==
    /\ Len(queries) >= 1
    /\ ArrayFilterSet /\ TagFilterSet
    /\ queries[1].filter = Some(<<"contains(name, 'sn1-405')", " and ", "tags('", "Department", "','", "Finance", "')">>)

StartsWith(g, p) == Len(g) >= Len(p) /\ SubSeq(g, 1, Len(p)) = p

\* What C9 says of one step that calls _add_host_to_keyed_groups.
C9_Step ==
    /\ Len(keyed_calls') = Len(keyed_calls) + 1 =>
           LET c == keyed_calls'[Len(keyed_calls')]
               keys == opts.keyed_groups
               missing == {n \in DOMAIN keys : keys[n].key \notin DOMAIN c.variables}
               joined == {x[1] : x \in {y \in inventory'.children \ inventory.children : y[2] = c.host}}
           IN  /\ (opts.strict /\ missing # {}) => (pc' = "error" /\ err' = "KeyedGroupError")
               /\ err' = "KeyedGroupError" => (opts.strict /\ missing # {})
               /\ ~opts.strict =>
                      /\ pc' = "loop" /\ i' = i + 1
                      /\ \A n \in DOMAIN keys :
                             IF n \in missing
                             THEN \A g \in joined : ~StartsWith(g, keys[n].prefix \o <<"_">>)
                             ELSE \A g \in DerivedGroups(keys[n].prefix, c.variables[keys[n].key]) :
                                      g \in inventory'.groups /\ <<g, c.host>> \in inventory'.children
    /\ (~opts.strict /\ keyed_calls' # << >>) => err' = ""

\* C9: a keyed-group spec whose key is absent from a host's variables ends
\* the run with a KeyedGroupError under strict; without strict the run goes
\* on, the host joins no group for that spec, and the other specs and the
\* other hosts are still processed.
C9_MissingKey == [][C9_Step]_vars

C9_Witness ==
    /\ pc = "done" /\ ~opts.strict
    /\ Len(keyed_calls) = 2
    /\ \E n, m \in DOMAIN opts.keyed_groups :
           /\ n < m
           /\ opts.keyed_groups[n].key \notin DOMAIN keyed_calls[1].variables
           /\ opts.keyed_groups[m].key \in DOMAIN keyed_calls[1].variables
           /\ \E g \in inventory.groups :
                  /\ StartsWith(g, opts.keyed_groups[m].prefix \o <<"_">>)
                  /\ <<g, keyed_calls[1].host>> \in inventory.children
           /\ \A g \in inventory.groups :
                  StartsWith(g, opts.keyed_groups[n].prefix \o <<"_">>) =>
                      <<g, keyed_calls[1].host>> \notin inventory.children
    /\ keyed_calls[2].host \in inventory.hosts

====
